---- MODULE Spec2Model ----
(***************************************************************************)
(* A model of the doi crate (Teddy-van-Jerry/doi-rs): the Doi identifier,  *)
(* its resolution against doi.org, the metadata requests and the           *)
(* DoiMetadataType tag table.                                              *)
(*                                                                         *)
(* A DOI string is a finite sequence of characters; a character is a one   *)
(* letter string.  Option and Result values are tagged records.  The crate *)
(* is modelled with its default features (proxy, metadata) enabled.        *)
(***************************************************************************)
EXTENDS Integers, Sequences, FiniteSets, TLC

\* Longest DOI string the model enumerates.
MaxLen == 2

\* Characters of the DOI strings: a cased letter in both cases and a
\* character that a URL encoder would touch.
Alphabet == {"a", "A", "/"}

Strings == UNION {[1..n -> Alphabet] : n \in 0..MaxLen}

\* Option<T>
None == [tag |-> "None"]
Some(v) == [tag |-> "Some", val |-> v]

\* Result<T, E>, and the unwinding of a panic
Ok(v) == [tag |-> "Ok", val |-> v]
Err(e) == [tag |-> "Err", err |-> e]
Panic == [tag |-> "Panic"]

\* The error built from the message "DOI is not set"
NotSet == [kind |-> "NotSet"]

-----------------------------------------------------------------------------
(* ureq agents, told apart by how they were configured *)

PlainAgent == [proxy |-> None, try_proxy_from_env |-> FALSE]

default_agent == [PlainAgent EXCEPT !.try_proxy_from_env = TRUE]

ProxyUrls == {"http://127.0.0.1:7890"}

\* The states a DoiBuilder can be in when build() is called
Builders ==
    [doi : {None} \cup {Some(s) : s \in Strings},
     env_proxy : BOOLEAN,
     proxy : {None} \cup {Some(p) : p \in ProxyUrls}]

build_agent(b) ==
    IF b.proxy.tag = "Some"
    THEN [PlainAgent EXCEPT !.proxy = b.proxy]
    ELSE [PlainAgent EXCEPT !.try_proxy_from_env = b.env_proxy]

build(b) == [doi |-> b.doi, agent |-> build_agent(b)]

-----------------------------------------------------------------------------
(* Doi: constructors and pure methods *)

new(v) == [doi |-> Some(v), agent |-> default_agent]

default == [doi |-> None, agent |-> default_agent]

is_set(d) == d.doi.tag = "Some"

get_doi(d) == IF d.doi.tag = "Some" THEN Ok(d.doi.val) ELSE Err(NotSet)

\* set_doi that fills an unset DOI and leaves a set one alone
set_doi_once(d, v) == IF d.doi.tag = "Some" THEN d ELSE [d EXCEPT !.doi = Some(v)]

set_doi(d, v) == [d EXCEPT !.doi = Some(v)]

\* Option::unwrap
unwrap(o) == IF o.tag = "Some" THEN Ok(o.val) ELSE Panic

UrlPrefix ==
    <<"h", "t", "t", "p", "s", ":", "/", "/", "d", "o", "i", ".", "o", "r", "g", "/">>

\* https_url with the slash after the host left out of the format string
https_url_no_slash(d) ==
    LET u == unwrap(d.doi)
    IN  IF u.tag = "Panic" THEN Panic
        ELSE Ok(SubSeq(UrlPrefix, 1, Len(UrlPrefix) - 1) \o u.val)

\* format!("https://doi.org/{}", self.doi.as_ref().unwrap())
https_url(d) ==
    LET u == unwrap(d.doi)
    IN  IF u.tag = "Panic" THEN Panic ELSE Ok(UrlPrefix \o u.val)

\* char::to_lowercase on the model's alphabet
LowerChar(c) == IF c = "A" THEN "a" ELSE c

\* str::to_lowercase
to_lowercase(s) == [i \in 1..Len(s) |-> LowerChar(s[i])]

\* eq comparing the strings as they are
eq_exact(d, e) ==
    IF d.doi.tag = "Some" /\ e.doi.tag = "Some"
    THEN d.doi.val = e.doi.val
    ELSE d.doi.tag = "None" /\ e.doi.tag = "None"

\* PartialEq::eq
eq(d, e) ==
    IF d.doi.tag = "Some" /\ e.doi.tag = "Some"
    THEN to_lowercase(d.doi.val) = to_lowercase(e.doi.val)
    ELSE d.doi.tag = "None" /\ e.doi.tag = "None"

-----------------------------------------------------------------------------
(* DoiMetadataType: the enum, and the two match tables of new and as_str *)

\* The unit variants of the enum, in declaration order
Variants == {
    "Article", "ArticleJournal", "ArticleMagazine", "ArticleNewspaper",
    "Bill", "Book", "Broadcast", "Chapter",
    "Classic", "Collection", "Dataset", "Document",
    "Entry", "EntryDictionary", "EntryEncyclopedia", "Event",
    "Figure", "Graphic", "Hearing", "Interview",
    "LegalCase", "Legislation", "Manuscript", "Map",
    "MotionPicture", "MusicalScore", "Pamphlet", "PaperConference",
    "Patent", "Performance", "Periodical", "PersonalCommunication",
    "Post", "PostWeblog", "Regulation", "Report",
    "Review", "ReviewBook", "Software", "Song",
    "Speech", "Standard", "Thesis", "Treaty",
    "Webpage"}

Named(v) == [variant |-> v]

MISC(s) == [variant |-> "MISC", s |-> s]

\* The arms of the match in DoiMetadataType::new, in order: <<tag, variant>>
NewArms == <<
    <<"article", "Article">>, <<"article-journal", "ArticleJournal">>,
    <<"article-magazine", "ArticleMagazine">>, <<"article-newspaper", "ArticleNewspaper">>,
    <<"bill", "Bill">>, <<"book", "Book">>,
    <<"broadcast", "Broadcast">>, <<"chapter", "Chapter">>,
    <<"classic", "Classic">>, <<"collection", "Collection">>,
    <<"dataset", "Dataset">>, <<"document", "Document">>,
    <<"entry", "Entry">>, <<"entry-dictionary", "EntryDictionary">>,
    <<"entry-encyclopedia", "EntryEncyclopedia">>, <<"event", "Event">>,
    <<"figure", "Figure">>, <<"graphic", "Graphic">>,
    <<"hearing", "Hearing">>, <<"interview", "Interview">>,
    <<"legal_case", "LegalCase">>, <<"legislation", "Legislation">>,
    <<"manuscript", "Manuscript">>, <<"map", "Map">>,
    <<"motion_picture", "MotionPicture">>, <<"musical_score", "MusicalScore">>,
    <<"pamphlet", "Pamphlet">>, <<"paper-conference", "PaperConference">>,
    <<"patent", "Patent">>, <<"performance", "Performance">>,
    <<"periodical", "Periodical">>, <<"personal_communication", "PersonalCommunication">>,
    <<"post", "Post">>, <<"post-weblog", "PostWeblog">>,
    <<"regulation", "Regulation">>, <<"report", "Report">>,
    <<"review", "Review">>, <<"review-book", "ReviewBook">>,
    <<"software", "Software">>, <<"song", "Song">>,
    <<"speech", "Speech">>, <<"standard", "Standard">>,
    <<"thesis", "Thesis">>, <<"treaty", "Treaty">>,
    <<"webpage", "Webpage">>>>

\* The arms of the match in DoiMetadataType::as_str, in order: <<variant, tag>>
AsStrArms == <<
    <<"Article", "article">>, <<"ArticleJournal", "article-journal">>,
    <<"ArticleMagazine", "article-magazine">>, <<"ArticleNewspaper", "article-newspaper">>,
    <<"Bill", "bill">>, <<"Book", "book">>,
    <<"Broadcast", "broadcast">>, <<"Chapter", "chapter">>,
    <<"Classic", "classic">>, <<"Collection", "collection">>,
    <<"Dataset", "dataset">>, <<"Document", "document">>,
    <<"Entry", "entry">>, <<"EntryDictionary", "entry-dictionary">>,
    <<"EntryEncyclopedia", "entry-encyclopedia">>, <<"Event", "event">>,
    <<"Figure", "figure">>, <<"Graphic", "graphic">>,
    <<"Hearing", "hearing">>, <<"Interview", "interview">>,
    <<"LegalCase", "legal_case">>, <<"Legislation", "legislation">>,
    <<"Manuscript", "manuscript">>, <<"Map", "map">>,
    <<"MotionPicture", "motion_picture">>, <<"MusicalScore", "musical_score">>,
    <<"Pamphlet", "pamphlet">>, <<"PaperConference", "paper-conference">>,
    <<"Patent", "patent">>, <<"Performance", "performance">>,
    <<"Periodical", "periodical">>, <<"PersonalCommunication", "personal_communication">>,
    <<"Post", "post">>, <<"PostWeblog", "post-weblog">>,
    <<"Regulation", "regulation">>, <<"Report", "report">>,
    <<"Review", "review">>, <<"ReviewBook", "review-book">>,
    <<"Software", "software">>, <<"Song", "song">>,
    <<"Speech", "speech">>, <<"Standard", "standard">>,
    <<"Thesis", "thesis">>, <<"Treaty", "treaty">>,
    <<"Webpage", "webpage">>>>

\* new with a lenient arm: the hyphenated spelling of legal_case is accepted
DoiMetadataType_new_lenient(s) ==
    LET hits == {i \in 1..Len(NewArms) : NewArms[i][1] = s}
    IN  IF s = "legal-case" THEN Named("LegalCase")
        ELSE IF hits = {} THEN MISC(s)
        ELSE Named(NewArms[CHOOSE i \in hits : \A k \in hits : i <= k][2])

\* DoiMetadataType::new: the first arm whose pattern is s, else the catch-all
DoiMetadataType_new(s) ==
    LET hits == {i \in 1..Len(NewArms) : NewArms[i][1] = s}
    IN  IF hits = {} THEN MISC(s)
        ELSE Named(NewArms[CHOOSE i \in hits : \A k \in hits : i <= k][2])

\* as_str with one tag misspelt: LegalCase written with a hyphen
DoiMetadataType_as_str_hyphen(t) ==
    IF t.variant = "MISC" THEN t.s
    ELSE IF t.variant = "LegalCase" THEN "legal-case"
    ELSE LET hits == {i \in 1..Len(AsStrArms) : AsStrArms[i][1] = t.variant}
         IN  AsStrArms[CHOOSE i \in hits : \A k \in hits : i <= k][2]

\* DoiMetadataType::as_str: the first arm that matches the value
DoiMetadataType_as_str(t) ==
    IF t.variant = "MISC" THEN t.s
    ELSE LET hits == {i \in 1..Len(AsStrArms) : AsStrArms[i][1] = t.variant}
         IN  AsStrArms[CHOOSE i \in hits : \A k \in hits : i <= k][2]

\* The tags the crate names
Tags == {NewArms[i][1] : i \in 1..Len(NewArms)}

\* Strings that are no tag: tags in another letter case, with hyphen and
\* underscore exchanged, padded, empty, and tags of other schemas
NearTags == {
    "Article", "Article-journal", "article_journal", "Article-magazine",
    "article_magazine", "Article-newspaper", "article_newspaper", "Bill",
    "Book", "Broadcast", "Chapter", "Classic",
    "Collection", "Dataset", "Document", "Entry",
    "Entry-dictionary", "entry_dictionary", "Entry-encyclopedia", "entry_encyclopedia",
    "Event", "Figure", "Graphic", "Hearing",
    "Interview", "Legal_case", "legal-case", "Legislation",
    "Manuscript", "Map", "Motion_picture", "motion-picture",
    "Musical_score", "musical-score", "Pamphlet", "Paper-conference",
    "paper_conference", "Patent", "Performance", "Periodical",
    "Personal_communication", "personal-communication", "Post", "Post-weblog",
    "post_weblog", "Regulation", "Report", "Review",
    "Review-book", "review_book", "Software", "Song",
    "Speech", "Standard", "Thesis", "Treaty",
    "Webpage", "ARTICLE", "article ", " article",
    "", "nonsense-tag", "unknown", "journal-article",
    "proceedings-article", "MISC", "Other"}

TagInputs == Tags \cup NearTags

TypeValues == {Named(v) : v \in Variants} \cup {MISC(s) : s \in TagInputs}

-----------------------------------------------------------------------------
(* serde_json values, and the record Doi::metadata projects from them *)

JNull == [k |-> "Null"]
JString(s) == [k |-> "String", s |-> s]
JNumber(n) == [k |-> "Number", n |-> n]
JArray(items) == [k |-> "Array", items |-> items]
JObject(fields) == [k |-> "Object", fields |-> fields]

\* value[key]: Null unless value is an object that has the key
Index(value, key) ==
    IF value.k = "Object" /\ key \in DOMAIN value.fields
    THEN value.fields[key]
    ELSE JNull

\* Value::as_str
Value_as_str(value) == IF value.k = "String" THEN Some(value.s) ELSE None

\* Value::as_array
Value_as_array(value) == IF value.k = "Array" THEN Some(value.items) ELSE None

\* The DoiMetadataPerson pushed for one element of the author array
Person(author) ==
    [given |-> Value_as_str(Index(author, "given")),
     family |-> Value_as_str(Index(author, "family")),
     suffix |-> Value_as_str(Index(author, "suffix"))]

\* extract that pushes a person only for the elements that are objects
extract_objects_only(doi, json) ==
    LET title == Value_as_str(Index(json, "title"))
        authors == Value_as_array(Index(json, "author"))
        type == Value_as_str(Index(json, "type"))
        RECURSIVE people(_)
        people(a) ==
            IF Len(a) = 0 THEN <<>>
            ELSE IF Head(a).k = "Object" THEN <<Person(Head(a))>> \o people(Tail(a))
            ELSE people(Tail(a))
    IN  [doi |-> doi,
         title |-> title,
         authors |-> IF authors.tag = "Some" THEN Some(people(authors.val)) ELSE None,
         type |-> IF type.tag = "Some" THEN Some(DoiMetadataType_new(type.val)) ELSE None]

\* extract that starts from an empty author list instead of None
extract_authors_default(doi, json) ==
    LET title == Value_as_str(Index(json, "title"))
        authors == Value_as_array(Index(json, "author"))
        type == Value_as_str(Index(json, "type"))
    IN  [doi |-> doi,
         title |-> title,
         authors |-> IF authors.tag = "Some"
                     THEN Some([i \in 1..Len(authors.val) |-> Person(authors.val[i])])
                     ELSE Some(<<>>),
         type |-> IF type.tag = "Some" THEN Some(DoiMetadataType_new(type.val)) ELSE None]

\* Doi::metadata, from DoiMetadata::new(doi) to Ok(metadata)
extract(doi, json) ==
    LET title == Value_as_str(Index(json, "title"))
        authors == Value_as_array(Index(json, "author"))
        type == Value_as_str(Index(json, "type"))
    IN  [doi |-> doi,
         title |-> title,
         authors |-> IF authors.tag = "Some"
                     THEN Some([i \in 1..Len(authors.val) |-> Person(authors.val[i])])
                     ELSE None,
         type |-> IF type.tag = "Some" THEN Some(DoiMetadataType_new(type.val)) ELSE None]

\* A response body: its text, whether reading it to the end succeeds, and
\* the JSON value the text parses to, if it is JSON
Body(text, readable, json) == [text |-> text, readable |-> readable, json |-> json]

\* A document as doi.org serves it
SampleDoc ==
    JObject([title |-> JString("Flexible High-Level Synthesis Library"),
             author |-> JArray(<<JObject([given |-> JString("Wuqiong"),
                                          family |-> JString("Zhao")])>>),
             type |-> JString("article-journal")])

\* Bodies of a response the agent reports as Ok: JSON, text that is not
\* JSON, and a body whose read fails part way
OkBodies ==
    {Body("{\"title\": ...}", TRUE, Some(SampleDoc)),
     Body("@article{...}", TRUE, None),
     Body("", FALSE, None)}

\* Body of a response with an error status
ErrorBody == Body("<html>", TRUE, None)

-----------------------------------------------------------------------------
(* DoiMetadataPerson::full_name.  A name is a sequence of characters. *)

\* The error of full_name: Err(())
EmptyName == [kind |-> "Unit"]

Space == <<" ">>

\* full_name with the arm for a given name and a suffix written suffix first
full_name_suffix_first(p) ==
    LET g == p.given
        f == p.family
        x == p.suffix
    IN  IF g.tag = "Some" /\ f.tag = "Some" /\ x.tag = "Some"
        THEN Ok(g.val \o Space \o f.val \o Space \o x.val)
        ELSE IF g.tag = "Some" /\ f.tag = "Some" THEN Ok(g.val \o Space \o f.val)
        ELSE IF g.tag = "Some" /\ x.tag = "Some" THEN Ok(x.val \o Space \o g.val)
        ELSE IF g.tag = "Some" THEN Ok(g.val)
        ELSE IF f.tag = "Some" /\ x.tag = "Some" THEN Ok(f.val \o Space \o x.val)
        ELSE IF f.tag = "Some" THEN Ok(f.val)
        ELSE IF x.tag = "Some" THEN Ok(x.val)
        ELSE Err(EmptyName)

\* DoiMetadataPerson::full_name: the eight arms of the match, in order
full_name(p) ==
    LET g == p.given
        f == p.family
        x == p.suffix
    IN  IF g.tag = "Some" /\ f.tag = "Some" /\ x.tag = "Some"
        THEN Ok(g.val \o Space \o f.val \o Space \o x.val)
        ELSE IF g.tag = "Some" /\ f.tag = "Some" /\ x.tag = "None"
        THEN Ok(g.val \o Space \o f.val)
        ELSE IF g.tag = "Some" /\ f.tag = "None" /\ x.tag = "Some"
        THEN Ok(g.val \o Space \o x.val)
        ELSE IF g.tag = "Some" /\ f.tag = "None" /\ x.tag = "None" THEN Ok(g.val)
        ELSE IF g.tag = "None" /\ f.tag = "Some" /\ x.tag = "Some"
        THEN Ok(f.val \o Space \o x.val)
        ELSE IF g.tag = "None" /\ f.tag = "Some" /\ x.tag = "None" THEN Ok(f.val)
        ELSE IF g.tag = "None" /\ f.tag = "None" /\ x.tag = "Some" THEN Ok(x.val)
        ELSE Err(EmptyName)

\* Names a field can hold: one and two letters, one with a space in it, and
\* the empty string
Names == {<<"T">>, <<"J", "r">>, <<"v", " ", "J">>, <<>>}

NameOptions == {None} \cup {Some(n) : n \in Names}

\* The DoiMetadataPerson values: the fields are public and independent
Persons == [given : NameOptions, family : NameOptions, suffix : NameOptions]

-----------------------------------------------------------------------------
(* The transport: what Request::call() hands back.  The server and the     *)
(* network choose the outcome; the crate only matches on it.               *)

\* "I'm a teapot", which resolve() does not count as an error
Teapot == 418

\* Statuses the agent reports as Err(ureq::Error::Status(code, response))
ErrorStatuses == {404, Teapot, 500}

\* A URL off doi.org that a redirect chain ends at
Landing == <<"h", "t", "t", "p", "s", ":", "/", "/", "x", "/">>

Outcomes ==
    [kind : {"Ok"}, redirected : BOOLEAN, body : OkBodies]
        \cup [kind : {"Status"}, code : ErrorStatuses, redirected : BOOLEAN,
              body : {ErrorBody}]
        \cup {[kind |-> "Transport"]}

\* The response to a request for url: get_url() is the last URL of the chain.
Response(url, o) ==
    [url |-> IF o.redirected THEN Landing ELSE url, body |-> o.body]

\* agent.head(url).call() / agent.get(url).set("Accept", accept).call()
call(req, o) ==
    IF o.kind = "Ok" THEN Ok(Response(req.url, o))
    ELSE IF o.kind = "Status"
    THEN Err([kind |-> "Status", code |-> o.code, response |-> Response(req.url, o)])
    ELSE Err([kind |-> "Transport"])

\* What a call leaves behind: its result and the requests it sent
Done(result, requests) == [result |-> result, requests |-> requests]

\* resolve without the 418 arm: every Err of the call is returned
resolve_teapot_is_error(d, o) ==
    LET url == https_url(d)
        req == [method |-> "HEAD", url |-> url.val, agent |-> d.agent]
        r == call(req, o)
    IN  IF url.tag = "Panic" THEN Done(Panic, <<>>)
        ELSE IF r.tag = "Ok" THEN Done(Ok(r.val.url), <<req>>)
        ELSE Done(Err(r.err), <<req>>)

\* Doi::resolve
resolve(d, o) ==
    LET url == https_url(d)
        req == [method |-> "HEAD", url |-> url.val, agent |-> d.agent]
        r == call(req, o)
    IN  IF url.tag = "Panic" THEN Done(Panic, <<>>)
        ELSE IF r.tag = "Ok" THEN Done(Ok(r.val.url), <<req>>)
        ELSE IF r.err.kind = "Status" /\ r.err.code = Teapot
        THEN Done(Ok(r.err.response.url), <<req>>)
        ELSE Done(Err(r.err), <<req>>)

\* metadata_call without its first line, the check that the DOI is set
metadata_call_unchecked(d, accept, o) ==
    LET url == https_url(d)
        req == [method |-> "GET", url |-> url.val, accept |-> accept, agent |-> d.agent]
    IN  IF url.tag = "Panic" THEN Done(Panic, <<>>)
        ELSE Done(call(req, o), <<req>>)

\* metadata_call with the 418 arm of resolve copied into it
metadata_call_teapot(d, accept, o) ==
    LET url == https_url(d)
        req == [method |-> "GET", url |-> url.val, accept |-> accept, agent |-> d.agent]
        r == call(req, o)
    IN  IF get_doi(d).tag = "Err" THEN Done(get_doi(d), <<>>)
        ELSE IF url.tag = "Panic" THEN Done(Panic, <<>>)
        ELSE IF r.tag = "Err" /\ r.err.kind = "Status" /\ r.err.code = Teapot
        THEN Done(Ok(r.err.response), <<req>>)
        ELSE Done(r, <<req>>)

\* Doi::metadata_call
metadata_call(d, accept, o) ==
    LET url == https_url(d)
        req == [method |-> "GET", url |-> url.val, accept |-> accept, agent |-> d.agent]
    IN  IF get_doi(d).tag = "Err" THEN Done(get_doi(d), <<>>)
        ELSE IF url.tag = "Panic" THEN Done(Panic, <<>>)
        ELSE Done(call(req, o), <<req>>)

\* Response::into_json, with the error mapped to a message
into_json(resp) ==
    IF resp.body.readable /\ resp.body.json.tag = "Some"
    THEN Ok(resp.body.json.val)
    ELSE Err([kind |-> "Message", text |-> "Error parsing JSON"])

\* Response::into_string, with the error mapped to the message msg
into_string(resp, msg) ==
    IF resp.body.readable THEN Ok(resp.body.text)
    ELSE Err([kind |-> "Message", text |-> msg])

\* Doi::metadata_json
metadata_json(d, o) ==
    LET c == metadata_call(d, "application/json", o)
    IN  IF c.result.tag = "Ok" THEN Done(into_json(c.result.val), c.requests) ELSE c

\* Doi::metadata_json_string
metadata_json_string(d, o) ==
    LET c == metadata_call(d, "application/json", o)
    IN  IF c.result.tag = "Ok"
        THEN Done(into_string(c.result.val, "Error parsing JSON"), c.requests)
        ELSE c

\* Doi::metadata_bibtex
metadata_bibtex(d, o) ==
    LET c == metadata_call(d, "application/x-bibtex", o)
    IN  IF c.result.tag = "Ok"
        THEN Done(into_string(c.result.val, "Error fetching BibTeX"), c.requests)
        ELSE c

\* metadata that calls metadata_json once for each field group it reads
metadata_refetch(d, o) ==
    LET doi == get_doi(d)
        j == metadata_json(d, o)
        k == metadata_json(d, o)
    IN  IF doi.tag = "Err" THEN Done(doi, <<>>)
        ELSE IF j.result.tag = "Ok"
        THEN Done(Ok(extract(doi.val, j.result.val)), j.requests \o k.requests)
        ELSE j

\* Doi::metadata
metadata(d, o) ==
    LET doi == get_doi(d)
        j == metadata_json(d, o)
    IN  IF doi.tag = "Err" THEN Done(doi, <<>>)
        ELSE IF j.result.tag = "Ok"
        THEN Done(Ok(extract(doi.val, j.result.val)), j.requests)
        ELSE j

\* The Doi values a caller can hold: the argument of a comparison
Dois ==
    {new(v) : v \in Strings} \cup {default} \cup {build(b) : b \in Builders}

-----------------------------------------------------------------------------
VARIABLES
    self,   \* the Doi object the calls are made on
    made,   \* the constructor that made it
    supplied, \* the DOI the caller supplied last, None if none yet
    ret     \* the last call: its name and what it returned

vars == <<self, made, supplied, ret>>

NoCall == [op |-> "none"]

\* The calls that can unwind: https_url unwraps the DOI, resolve calls it.
Unwinding == {"https_url", "resolve"}

\* A panic unwinds through the caller and ends the process.
Panicked == ret.op \in Unwinding /\ ret.result = Panic

Init ==
    /\ self = default
    /\ made = "default"
    /\ supplied = None
    /\ ret = NoCall

New(v) ==
    /\ ~Panicked
    /\ self' = new(v)
    /\ made' = "new"
    /\ supplied' = Some(v)
    /\ ret' = [op |-> "new", arg |-> v]

Default ==
    /\ ~Panicked
    /\ self' = default
    /\ made' = "default"
    /\ supplied' = None
    /\ ret' = [op |-> "default"]

Build(b) ==
    /\ ~Panicked
    /\ self' = build(b)
    /\ made' = "build"
    /\ supplied' = b.doi
    /\ ret' = [op |-> "build", arg |-> b]

SetDoi(v) ==
    /\ ~Panicked
    /\ self' = set_doi(self, v)
    /\ ret' = [op |-> "set_doi", arg |-> v]
    /\ supplied' = Some(v)
    /\ UNCHANGED made

IsSet ==
    /\ ~Panicked
    /\ ret' = [op |-> "is_set", result |-> is_set(self)]
    /\ UNCHANGED <<self, made, supplied>>

GetDoi ==
    /\ ~Panicked
    /\ ret' = [op |-> "get_doi", result |-> get_doi(self)]
    /\ UNCHANGED <<self, made, supplied>>

HttpsUrl ==
    /\ ~Panicked
    /\ ret' = [op |-> "https_url", result |-> https_url(self)]
    /\ UNCHANGED <<self, made, supplied>>

Eq(other) ==
    /\ ~Panicked
    /\ ret' = [op |-> "eq", other |-> other, result |-> eq(self, other)]
    /\ UNCHANGED <<self, made, supplied>>

Resolve(o) ==
    /\ ~Panicked
    /\ ret' = [op |-> "resolve", outcome |-> o] @@ resolve(self, o)
    /\ UNCHANGED <<self, made, supplied>>

Metadata(o) ==
    /\ ~Panicked
    /\ ret' = [op |-> "metadata", outcome |-> o] @@ metadata(self, o)
    /\ UNCHANGED <<self, made, supplied>>

MetadataJson(o) ==
    /\ ~Panicked
    /\ ret' = [op |-> "metadata_json", outcome |-> o] @@ metadata_json(self, o)
    /\ UNCHANGED <<self, made, supplied>>

MetadataJsonString(o) ==
    /\ ~Panicked
    /\ ret' = [op |-> "metadata_json_string", outcome |-> o]
                @@ metadata_json_string(self, o)
    /\ UNCHANGED <<self, made, supplied>>

MetadataBibtex(o) ==
    /\ ~Panicked
    /\ ret' = [op |-> "metadata_bibtex", outcome |-> o] @@ metadata_bibtex(self, o)
    /\ UNCHANGED <<self, made, supplied>>

Next ==
    \/ \E v \in Strings : New(v)
    \/ Default
    \/ \E b \in Builders : Build(b)
    \/ \E v \in Strings : SetDoi(v)
    \/ IsSet
    \/ GetDoi
    \/ HttpsUrl
    \/ \E other \in Dois : Eq(other)
    \/ \E o \in Outcomes : Resolve(o)
    \/ \E o \in Outcomes : Metadata(o)
    \/ \E o \in Outcomes : MetadataJson(o)
    \/ \E o \in Outcomes : MetadataJsonString(o)
    \/ \E o \in Outcomes : MetadataBibtex(o)

Spec == Init /\ [][Next]_vars

-----------------------------------------------------------------------------
(* DoiMetadataType on its own: new and as_str, applied to fresh arguments  *)
(* and to each other's results.  origin is the argument the chain began    *)
(* with.                                                                   *)

TypeNew(s) ==
    /\ ret' = [op |-> "DoiMetadataType::new", arg |-> s, origin |-> None,
               result |-> DoiMetadataType_new(s)]
    /\ UNCHANGED <<self, made, supplied>>

TypeAsStr(t) ==
    /\ ret' = [op |-> "DoiMetadataType::as_str", arg |-> t, origin |-> None,
               result |-> DoiMetadataType_as_str(t)]
    /\ UNCHANGED <<self, made, supplied>>

\* DoiMetadataType::new(x.as_str())
TypeNewOfAsStr ==
    /\ ret.op = "DoiMetadataType::as_str"
    /\ ret.origin = None
    /\ ret' = [op |-> "DoiMetadataType::new", arg |-> ret.result,
               origin |-> Some(ret.arg), result |-> DoiMetadataType_new(ret.result)]
    /\ UNCHANGED <<self, made, supplied>>

\* DoiMetadataType::new(s).as_str()
TypeAsStrOfNew ==
    /\ ret.op = "DoiMetadataType::new"
    /\ ret.origin = None
    /\ ret' = [op |-> "DoiMetadataType::as_str", arg |-> ret.result,
               origin |-> Some(ret.arg), result |-> DoiMetadataType_as_str(ret.result)]
    /\ UNCHANGED <<self, made, supplied>>

NextType ==
    \/ \E s \in TagInputs : TypeNew(s)
    \/ \E t \in TypeValues : TypeAsStr(t)
    \/ TypeNewOfAsStr
    \/ TypeAsStrOfNew

SpecType == Init /\ [][NextType]_vars

-----------------------------------------------------------------------------
(* Properties *)

MetadataOps == {"metadata", "metadata_json", "metadata_json_string", "metadata_bibtex"}

\* The URL the transport reports for the last call: the landing URL after a
\* redirect, the request URL otherwise
FinalUrl == IF ret.outcome.redirected THEN Landing ELSE UrlPrefix \o self.doi.val

\* s and t are the same string up to the case of their letters
SameIgnoringCase(s, t) ==
    /\ Len(s) = Len(t)
    /\ \A i \in 1..Len(s) : s[i] = t[i] \/ {s[i], t[i]} = {"a", "A"}

Agents == {d.agent : d \in Dois}

\* C1: resolve() on a set Doi returns Ok(final URL) when the transport
\* reports success or status 418, and for every other outcome (another error
\* status, a network or TLS failure) an Err carrying the transport's error.
C1_ResolveOkOnSuccessOrTeapot ==
    (ret.op = "resolve" /\ is_set(self)) =>
        IF ret.outcome.kind = "Ok"
              \/ (ret.outcome.kind = "Status" /\ ret.outcome.code = 418)
        THEN ret.result = Ok(FinalUrl)
        ELSE /\ ret.result.tag = "Err"
             /\ ret.result.err.kind = ret.outcome.kind
             /\ ret.outcome.kind = "Status" => ret.result.err.code = ret.outcome.code

C1_Witness ==
    /\ ret.op = "resolve"
    /\ is_set(self)
    /\ ret.outcome.kind = "Status"
    /\ ret.outcome.code = 418
    /\ ret.outcome.redirected
    /\ ret.result = Ok(Landing)

\* C2: https_url() on an unset Doi fails with the NotSet error returned as a
\* value; it does not abort and returns no URL.
C2_HttpsUrlUnsetReturnsNotSet ==
    (ret.op = "https_url" /\ ~is_set(self)) => ret.result = Err(NotSet)

\* C3: resolve() completes with Ok or Err in every state of the Doi, the
\* unset one included, and never ends the process; on an unset Doi it
\* returns an error without sending a request.
C3_ResolveNeverPanics ==
    ret.op = "resolve" =>
        /\ ret.result.tag \in {"Ok", "Err"}
        /\ ~is_set(self) => (ret.result.tag = "Err" /\ ret.requests = <<>>)

\* C4: each metadata operation on an unset Doi returns the NotSet error and
\* sends no request, whatever the transport would have answered.
C4_MetadataUnsetIsNotSetBeforeRequest ==
    (ret.op \in MetadataOps /\ ~is_set(self)) =>
        (ret.result = Err(NotSet) /\ ret.requests = <<>>)

C4_Witness ==
    /\ ret.op = "metadata_json_string"
    /\ ~is_set(self)
    /\ ret.outcome.kind = "Ok"
    /\ ret.result = Err(NotSet)

\* C5: for the metadata operations every status the transport does not
\* report as success, 418 included, yields an error carrying that status;
\* only resolve() takes 418 for success.
C5_MetadataErrorStatusIsErr ==
    (ret.op \in MetadataOps /\ is_set(self) /\ ret.outcome.kind = "Status") =>
        /\ ret.result.tag = "Err"
        /\ ret.result.err.kind = "Status"
        /\ ret.result.err.code = ret.outcome.code

C5_Witness ==
    /\ ret.op = "metadata_json_string"
    /\ is_set(self)
    /\ ret.outcome.kind = "Status"
    /\ ret.outcome.code = 418
    /\ ret.result.tag = "Err"

\* C6: two set Dois are equal exactly when their strings agree up to letter
\* case, two unset Dois are equal, a set and an unset one are never equal in
\* either order, and the agents the two hold do not change the answer.
C6_EqIsCaseInsensitiveOnDoiOnly ==
    ret.op = "eq" =>
        /\ (is_set(self) /\ is_set(ret.other)) =>
               (ret.result <=> SameIgnoringCase(self.doi.val, ret.other.doi.val))
        /\ (~is_set(self) /\ ~is_set(ret.other)) => ret.result
        /\ (is_set(self) # is_set(ret.other)) =>
               (~ret.result /\ ~eq(ret.other, self))
        /\ \A a, b \in Agents :
               eq([self EXCEPT !.agent = a], [ret.other EXCEPT !.agent = b]) = ret.result

C6_Witness ==
    /\ ret.op = "eq"
    /\ is_set(self)
    /\ is_set(ret.other)
    /\ self.doi.val # ret.other.doi.val
    /\ self.agent # ret.other.agent
    /\ ret.result

\* C7: after new(v) or default() and any number of set_doi(v), get_doi()
\* returns the value supplied last, verbatim, and is_set() is true; get_doi()
\* fails with NotSet and is_set() is false exactly when the Doi was
\* default-constructed and nothing was supplied since.
C7_GetDoiIsLastSupplied ==
    made \in {"new", "default"} =>
        /\ self.doi = supplied
        /\ is_set(self) <=> ~(made = "default" /\ supplied = None)
        /\ ret.op = "get_doi" =>
               ret.result = IF supplied = None THEN Err(NotSet) ELSE Ok(supplied.val)
        /\ ret.op = "is_set" => (ret.result <=> supplied # None)

C7_Witness ==
    /\ ret.op = "get_doi"
    /\ made = "default"
    /\ supplied = Some(<<"A", "/">>)
    /\ ret.result = Ok(<<"A", "/">>)

\* C8: for a set Doi, https_url() is "https://doi.org/" followed by the DOI
\* supplied last, character for character.
C8_HttpsUrlIsPrefixThenDoi ==
    (ret.op = "https_url" /\ supplied # None) =>
        /\ ret.result.tag = "Ok"
        /\ Len(ret.result.val) = 16 + Len(supplied.val)
        /\ SubSeq(ret.result.val, 1, 16) = UrlPrefix
        /\ SubSeq(ret.result.val, 17, Len(ret.result.val)) = supplied.val

C8_Witness ==
    /\ ret.op = "https_url"
    /\ made = "new"
    /\ supplied = Some(<<"/", "A">>)
    /\ ret.result.tag = "Ok"

\* C9: new(x.as_str()) = x for every unit variant x, the tags of distinct
\* variants are distinct, and as_str of MISC(s) is s.
C9_NamedVariantsRoundTrip ==
    /\ (ret.op = "DoiMetadataType::new" /\ ret.origin # None) =>
           (ret.origin.val.variant # "MISC" => ret.result = ret.origin.val)
    /\ ret.op = "DoiMetadataType::as_str" =>
           (ret.arg.variant = "MISC" => ret.result = ret.arg.s)
    /\ \A x, y \in Variants :
           x # y => DoiMetadataType_as_str(Named(x)) # DoiMetadataType_as_str(Named(y))

C9_Witness ==
    /\ ret.op = "DoiMetadataType::new"
    /\ ret.origin = Some(Named("LegalCase"))
    /\ ret.arg = "legal_case"
    /\ ret.result = Named("LegalCase")

\* C10: new(s).as_str() = s for every string s, and a string that is no tag
\* byte for byte (another letter case, a hyphen for an underscore) becomes
\* MISC(s); new always returns a value of the enum.
C10_NewIsTotalAndExact ==
    /\ (ret.op = "DoiMetadataType::as_str" /\ ret.origin # None) =>
           ret.result = ret.origin.val
    /\ ret.op = "DoiMetadataType::new" =>
           /\ ret.result.variant \in Variants \cup {"MISC"}
           /\ ret.arg \in NearTags => ret.result = MISC(ret.arg)

C10_Witness ==
    /\ ret.op = "DoiMetadataType::as_str"
    /\ ret.origin = Some("legal-case")
    /\ ret.arg = MISC("legal-case")
    /\ ret.result = "legal-case"

-----------------------------------------------------------------------------
(* DoiMetadataPerson on its own *)

FullName(p) ==
    /\ ret' = [op |-> "full_name", arg |-> p, result |-> full_name(p)]
    /\ UNCHANGED <<self, made, supplied>>

NextPerson == \E p \in Persons : FullName(p)

SpecPerson == Init /\ [][NextPerson]_vars

\* The fields of p that are present, in the order given, family, suffix
PresentParts(p) ==
    LET part(o) == IF o.tag = "Some" THEN <<o.val>> ELSE <<>>
    IN  part(p.given) \o part(p.family) \o part(p.suffix)

\* The strings of parts with one space between neighbours
RECURSIVE JoinWithSpaces(_)
JoinWithSpaces(parts) ==
    IF Len(parts) = 0 THEN <<>>
    ELSE IF Len(parts) = 1 THEN parts[1]
    ELSE parts[1] \o <<" ">> \o JoinWithSpaces(Tail(parts))

\* C11: full_name() is the present fields joined by single spaces in the
\* order given, family, suffix, for each of the eight presence combinations,
\* and it fails exactly when all three fields are absent.
C11_FullNameJoinsPresentParts ==
    ret.op = "full_name" =>
        IF PresentParts(ret.arg) = <<>>
        THEN ret.result.tag = "Err"
        ELSE ret.result = Ok(JoinWithSpaces(PresentParts(ret.arg)))

C11_Witness ==
    /\ ret.op = "full_name"
    /\ ret.arg = [given |-> Some(<<"T">>), family |-> None, suffix |-> Some(<<"J", "r">>)]
    /\ ret.result = Ok(<<"T", " ", "J", "r">>)

-----------------------------------------------------------------------------
(* Doi::metadata against the JSON documents a server can answer with *)

\* Longest author array the model enumerates.
MaxAuthors == 2

\* Elements of an author array: objects with all, some or none of the name
\* fields, one with a field that is no string, and values that are no object
AuthorElements ==
    {JObject([given |-> JString(<<"T">>), family |-> JString(<<"J", "r">>),
              suffix |-> JString(<<"v", " ", "J">>)]),
     JObject([given |-> JString(<<"J", "r">>)]),
     JObject([family |-> JString(<<"T">>), suffix |-> JNumber(3)]),
     JObject(<<>>),
     JString(<<"T">>), JNumber(7), JNull, JArray(<<>>)}

AuthorArrays == UNION {[1..n -> AuthorElements] : n \in 0..MaxAuthors}

\* What a top-level field can hold, by key
FieldValues(key) ==
    IF key = "title" THEN {JString("Flexible"), JNumber(1)}
    ELSE IF key = "type"
    THEN {JString("article-journal"), JString("nonsense-tag"), JNull}
    ELSE {JArray(<<>>), JArray(<<JObject([given |-> JString(<<"T">>)])>>),
          JString("Zhao"), JObject([given |-> JString(<<"T">>)])}

FieldKeys == {"title", "author", "type"}

\* Objects with any of the three fields present or absent
FieldDocs ==
    UNION {{JObject(f) :
               f \in {g \in [K -> UNION {FieldValues(k) : k \in FieldKeys}] :
                          \A k \in K : g[k] \in FieldValues(k)}} :
           K \in SUBSET FieldKeys}

AuthorDocs == {JObject([author |-> JArray(a)]) : a \in AuthorArrays}

NonObjectDocs == {JNull, JString("x"), JNumber(1), JArray(<<>>)}

JsonDocs == FieldDocs \cup AuthorDocs \cup NonObjectDocs

\* Outcomes of the request of metadata(): every JSON document served with a
\* success status, and the outcomes of Spec
MetaOutcomes ==
    {[kind |-> "Ok", redirected |-> FALSE, body |-> Body("json", TRUE, Some(j))] :
        j \in JsonDocs}
        \cup Outcomes

\* The DOIs metadata() is called with
MetaDois == {v \in Strings : v = <<"A", "/">> \/ v = <<"a">>}

NextMeta ==
    \/ \E v \in MetaDois : New(v)
    \/ Default
    \/ \E o \in MetaOutcomes : Metadata(o)

SpecMeta == Init /\ [][NextMeta]_vars

\* value is an object whose field key holds a string
HasString(value, key) ==
    /\ value.k = "Object"
    /\ key \in DOMAIN value.fields
    /\ value.fields[key].k = "String"

\* value is an object whose field key holds an array
HasArray(value, key) ==
    /\ value.k = "Object"
    /\ key \in DOMAIN value.fields
    /\ value.fields[key].k = "Array"

\* The string of field key as an option
StringField(value, key) ==
    IF HasString(value, key) THEN Some(value.fields[key].s) ELSE None

\* What metadata_json() returns for the call recorded in ret
FetchedJson == metadata_json(self, ret.outcome).result

\* C12: whenever metadata_json() returns Ok with any JSON value, metadata()
\* returns Ok with the DOI verbatim, the title if it is a string, no authors
\* when author is absent or no array, and the parsed type if it is a
\* string; metadata() returns an error only when metadata_json() does.
C12_ExtractionNeverFails ==
    ret.op = "metadata" =>
        IF FetchedJson.tag = "Ok"
        THEN /\ ret.result.tag = "Ok"
             /\ ret.result.val.doi = supplied.val
             /\ ret.result.val.title = StringField(FetchedJson.val, "title")
             /\ ~HasArray(FetchedJson.val, "author") => ret.result.val.authors = None
             /\ ret.result.val.type =
                    IF HasString(FetchedJson.val, "type")
                    THEN Some(DoiMetadataType_new(FetchedJson.val.fields["type"].s))
                    ELSE None
        ELSE ret.result = FetchedJson

C12_Witness ==
    /\ ret.op = "metadata"
    /\ supplied = Some(<<"A", "/">>)
    /\ FetchedJson = Ok(JObject([title |-> JNumber(1), type |-> JString("nonsense-tag")]))
    /\ ret.result =
           Ok([doi |-> <<"A", "/">>, title |-> None, authors |-> None,
               type |-> Some(MISC("nonsense-tag"))])

\* C15: when author is an array of length n, zero included, authors is a
\* sequence of n persons in the same order; the fields of the i-th person
\* are the string fields of the i-th element and None otherwise, so an
\* element that is no object gives a person without any name.
C15_AuthorsFollowTheArray ==
    (ret.op = "metadata" /\ FetchedJson.tag = "Ok"
            /\ HasArray(FetchedJson.val, "author")) =>
        LET a == FetchedJson.val.fields["author"].items
            people == ret.result.val.authors
        IN  /\ ret.result.tag = "Ok"
            /\ people.tag = "Some"
            /\ Len(people.val) = Len(a)
            /\ \A i \in 1..Len(a) :
                   /\ people.val[i].given = StringField(a[i], "given")
                   /\ people.val[i].family = StringField(a[i], "family")
                   /\ people.val[i].suffix = StringField(a[i], "suffix")

C15_Witness ==
    /\ ret.op = "metadata"
    /\ ret.result.tag = "Ok"
    /\ FetchedJson.val =
           JObject([author |-> JArray(<<JNumber(7), JObject([given |-> JString(<<"J", "r">>)])>>)])
    /\ ret.result.val.authors =
           Some(<<[given |-> None, family |-> None, suffix |-> None],
                  [given |-> Some(<<"J", "r">>), family |-> None, suffix |-> None]>>)

-----------------------------------------------------------------------------
(* DoiBuilder: its constructors and setters, called in any order before    *)
(* build().  ret holds the builder the chain of calls is made on.          *)

\* DoiBuilder::new
DoiBuilder_new == [doi |-> None, env_proxy |-> TRUE, proxy |-> None]

\* #[derive(Default)]: Option defaults to None and bool to false
DoiBuilder_default == [doi |-> None, env_proxy |-> FALSE, proxy |-> None]

\* DoiBuilder::doi
DoiBuilder_doi(b, v) == [b EXCEPT !.doi = Some(v)]

\* DoiBuilder::env_proxy
DoiBuilder_env_proxy(b, e) == [b EXCEPT !.env_proxy = e]

\* Strings handed to proxy(): the proxy URLs and one ureq::Proxy::new rejects
ProxyInputs == ProxyUrls \cup {"socks9://nowhere"}

\* ureq::Proxy::new
Proxy_new(p) == IF p \in ProxyUrls THEN Ok(p) ELSE Err([kind |-> "BadProxy"])

\* DoiBuilder::proxy: the builder afterwards; `?` returns before the assignment
DoiBuilder_proxy(b, p) ==
    IF Proxy_new(p).tag = "Ok" THEN [b EXCEPT !.proxy = Some(Proxy_new(p).val)] ELSE b

BuilderOps ==
    {"DoiBuilder::new", "DoiBuilder::default", "DoiBuilder::doi",
     "DoiBuilder::env_proxy", "DoiBuilder::proxy", "DoiBuilder::build"}

\* A builder is at hand
InChain == ret.op \in BuilderOps

BuilderNew ==
    /\ ret' = [op |-> "DoiBuilder::new", builder |-> DoiBuilder_new, ctor |-> "new",
               env_called |-> FALSE, ok |-> TRUE]
    /\ UNCHANGED <<self, made, supplied>>

BuilderDefault ==
    /\ ret' = [op |-> "DoiBuilder::default", builder |-> DoiBuilder_default,
               ctor |-> "default", env_called |-> FALSE, ok |-> TRUE]
    /\ UNCHANGED <<self, made, supplied>>

BuilderDoi(v) ==
    /\ InChain
    /\ ret' = [ret EXCEPT !.op = "DoiBuilder::doi", !.ok = TRUE,
                          !.builder = DoiBuilder_doi(ret.builder, v)]
    /\ UNCHANGED <<self, made, supplied>>

BuilderEnvProxy(e) ==
    /\ InChain
    /\ ret' = [ret EXCEPT !.op = "DoiBuilder::env_proxy", !.ok = TRUE,
                          !.env_called = TRUE,
                          !.builder = DoiBuilder_env_proxy(ret.builder, e)]
    /\ UNCHANGED <<self, made, supplied>>

BuilderProxy(p) ==
    /\ InChain
    /\ ret' = [ret EXCEPT !.op = "DoiBuilder::proxy", !.ok = (Proxy_new(p).tag = "Ok"),
                          !.builder = DoiBuilder_proxy(ret.builder, p)]
    /\ UNCHANGED <<self, made, supplied>>

BuilderBuild ==
    /\ InChain
    /\ self' = build(ret.builder)
    /\ made' = "build"
    /\ supplied' = ret.builder.doi
    /\ ret' = [ret EXCEPT !.op = "DoiBuilder::build", !.ok = TRUE]

NextBuilder ==
    \/ BuilderNew
    \/ BuilderDefault
    \/ \E v \in Strings : BuilderDoi(v)
    \/ \E e \in BOOLEAN : BuilderEnvProxy(e)
    \/ \E p \in ProxyInputs : BuilderProxy(p)
    \/ BuilderBuild

SpecBuilder == Init /\ [][NextBuilder]_vars

\* C13: a builder from new() or default() honours the environment's proxy
\* settings unless the caller called env_proxy(); and when a proxy was set,
\* build() uses it whatever the flag and whatever the order of the calls.
C13_DefaultsHonourEnvAndProxyOverrides ==
    InChain =>
        /\ ~ret.env_called => ret.builder.env_proxy
        /\ ret.op = "DoiBuilder::build" =>
               /\ (~ret.env_called /\ ret.builder.proxy = None) =>
                      self.agent.try_proxy_from_env
               /\ ret.builder.proxy # None => self.agent.proxy = ret.builder.proxy

\* The part of C13 that holds of the code: an explicit proxy is the one the
\* agent uses, and without one the agent follows the flag.
C13_ProxyOverridesFlag ==
    (InChain /\ ret.op = "DoiBuilder::build") =>
        /\ ret.builder.proxy # None => self.agent.proxy = ret.builder.proxy
        /\ ret.builder.proxy = None =>
               (self.agent.proxy = None
                   /\ self.agent.try_proxy_from_env = ret.builder.env_proxy)

-----------------------------------------------------------------------------
\* The calls that use the network
NetOps == MetadataOps \cup {"resolve"}

\* C14: each call of resolve() or of a metadata operation on a set Doi sends
\* exactly one request, to the DOI's URL, whether the transport answers with
\* success, an error status or a failure; nothing is retried and metadata()
\* sends no request beyond the one of metadata_json().
C14_OneRequestPerCall ==
    (ret.op \in NetOps /\ is_set(self)) =>
        /\ Len(ret.requests) = 1
        /\ ret.requests[1].url = UrlPrefix \o self.doi.val
        /\ ret.requests[1].method = IF ret.op = "resolve" THEN "HEAD" ELSE "GET"

C14_Witness ==
    /\ ret.op = "metadata"
    /\ is_set(self)
    /\ ret.outcome.kind = "Ok"
    /\ ret.result.tag = "Ok"
    /\ Len(ret.requests) = 1

\* A failed call is not retried either
C14_WitnessFailure ==
    /\ ret.op = "resolve"
    /\ is_set(self)
    /\ ret.outcome.kind = "Transport"
    /\ ret.result.tag = "Err"
    /\ Len(ret.requests) = 1

====
